---- MODULE Spec2Model ----
(***************************************************************************)
(* A model of lib/utility.py of the Dusky Control Center: the YAML config   *)
(* loader, the uwsm command runner, the cached system-information lookup    *)
(* and the settings store (key validation, atomic save, typed load).        *)
(*                                                                          *)
(* Text is modelled as a sequence of one-token strings, so that trimming,   *)
(* tokenizing, formatting and parsing are computed, not assumed.            *)
(***************************************************************************)
EXTENDS Integers, Sequences, FiniteSets, TLC

VARIABLES
    \* ---- command runner (execute_command) ----
    ex_pc,         \* "call": execute_command is about to run; "done": it returned
    ex_cmd,        \* cmd_string of the call
    ex_title,      \* title of the call
    ex_term,       \* run_in_terminal of the call
    ex_argv,       \* the argument vector handed to Popen by the call (<<>>: none)
    ex_ret,        \* the value the call returned
    ex_spawned,    \* the argument vector of the process the call spawned (<<>>: none)
    \* ---- config loader (load_config) ----
    cf_pc,         \* "call": load_config is about to run; "done": it returned or raised
    cf_fs,         \* what is found at each path of the file system
    cf_path,       \* config_path of the call
    cf_result,     \* how the call ended: a returned mapping or a raised exception
    \* ---- system-information cache (get_system_value) ----
    sc_cache,      \* _SYSTEM_INFO_CACHE: key -> value, None for a key not in it
    sc_lock,       \* _SYSTEM_INFO_LOCK: the thread holding it, or NoThread
    sc_os,         \* the OS state: which of the sources the values come from answer
    sc_pc,         \* each thread's position in get_system_value
    sc_key,        \* each thread's key argument
    sc_result,     \* each thread's local "result"
    sc_ret,        \* the value each thread's call returned
    sc_computes,   \* how many times _compute_system_value ran for each key
    sc_first,      \* the value first stored for each key (history)
    \* ---- a save_setting then a load_setting of one key, one thread ----
    rt_pc,         \* "save", "load" or "done"
    rt_value,      \* the value saved, also the default of the load
    rt_as_int,     \* save_setting's as_int
    rt_inv,        \* load_setting's is_inversed
    rt_saved,      \* whether save_setting replaced the key's file
    rt_file,       \* the text of the key's file, NoFile when there is none
    rt_result,     \* what load_setting returned
    \* ---- one settings call on a key, with the file system it runs on ----
    ks_pc,         \* "call" or "done"
    ks_key,        \* the key argument, a sequence of characters
    ks_cache,      \* _RESOLVED_SETTINGS_DIR
    ks_dirs,       \* the directories that exist
    ks_files,      \* the regular files that exist
    ks_valid,      \* whether _validate_key_path returned a path
    ks_keypath,    \* the path it returned
    ks_fileOps,    \* the files the call created, replaced, removed or opened
    ks_dirOps,     \* the directories the call created
    \* ---- threads saving and loading one key (save_setting, load_setting) ----
    ss_pc,         \* each thread's position
    ss_fd,         \* each thread's local "fd" (NoFd: none)
    ss_call,       \* the inode of the temporary file the thread's call created (NoInode: none)
    ss_tmp,        \* whether the thread's "tmp_path" is set (to the name of that file)
    ss_buf,        \* how many pieces of the content are in the file object's buffer
    ss_exc,        \* the exception propagating in the thread ("none": none)
    ss_closes,     \* how many times the call closed its descriptor number
    ss_failed,     \* whether a step of the call failed
    ss_renamed,    \* whether the call renamed its temporary file onto the target
    ss_raised,     \* whether the call raised to its caller
    ss_unlinkErr,  \* whether the call's unlink of the temporary file failed
    ss_observed,   \* what a load_setting call read (NotRead: nothing yet)
    ss_fds,        \* the process's descriptor table: descriptor -> inode, NoInode when closed
    ss_owner,      \* the thread that opened each open descriptor
    ss_content,    \* the content of each inode, a sequence of pieces
    ss_target,     \* the inode the key's path names
    ss_tmpNames,   \* the inodes that have a temporary name in the directory
    ss_nextInode,  \* the next inode mkstemp creates
    ss_foreign     \* whether a thread closed a descriptor another thread had opened

execVars == <<ex_pc, ex_cmd, ex_title, ex_term, ex_argv, ex_ret, ex_spawned>>

configVars == <<cf_pc, cf_fs, cf_path, cf_result>>

cacheVars == <<sc_cache, sc_lock, sc_os, sc_pc, sc_key, sc_result, sc_ret,
               sc_computes, sc_first>>

roundVars == <<rt_pc, rt_value, rt_as_int, rt_inv, rt_saved, rt_file, rt_result>>

keyVars == <<ks_pc, ks_key, ks_cache, ks_dirs, ks_files, ks_valid, ks_keypath,
             ks_fileOps, ks_dirOps>>

saveVars == <<ss_pc, ss_fd, ss_call, ss_tmp, ss_buf, ss_exc, ss_closes, ss_failed,
              ss_renamed, ss_raised, ss_unlinkErr, ss_observed, ss_fds, ss_owner,
              ss_content, ss_target, ss_tmpNames, ss_nextInode, ss_foreign>>

vars == <<execVars, configVars, cacheVars, roundVars, keyVars, saveVars>>

(***************************************************************************)
(* Text helpers                                                             *)
(***************************************************************************)
\* All sequences over S of length 0..n
SeqUpTo(S, n) == UNION {[1..k -> S] : k \in 0..n}

RECURSIVE LStrip(_)
LStrip(s) == IF s # <<>> /\ Head(s) \in {" ", "\t", "\n", "\r"} THEN LStrip(Tail(s)) ELSE s

RECURSIVE RStrip(_)
RStrip(s) ==
    IF s # <<>> /\ s[Len(s)] \in {" ", "\t", "\n", "\r"}
    THEN RStrip(SubSeq(s, 1, Len(s) - 1))
    ELSE s

\* str.strip()
Strip(s) == LStrip(RStrip(s))

(***************************************************************************)
(* Command runner                                                           *)
(***************************************************************************)
MaxCmdLen == 3
MaxTitleLen == 2

CmdChars == {"a", " ", "|", "$E", "~"}
TitleChars == {"t", " ", "\n", "BEL"}

Commands == SeqUpTo(CmdChars, MaxCmdLen)
Titles == SeqUpTo(TitleChars, MaxTitleLen)

_SHELL_METACHARACTERS ==
    {"|", "&", ";", ">", "<", "$", "`", "\\", "\"", "'", "*", "?",
     "[", "]", "(", ")", "{", "}", "!"}

\* os.path.expandvars: the token "$E" is a reference to a variable set to the
\* empty string; it is replaced by its value.
RECURSIVE ExpandVars(_)
ExpandVars(s) ==
    IF s = <<>> THEN <<>>
    ELSE IF Head(s) = "$E" THEN ExpandVars(Tail(s))
    ELSE <<Head(s)>> \o ExpandVars(Tail(s))

\* os.path.expanduser: a leading "~" that is the whole first path component
\* becomes the home directory.
ExpandUser(s) ==
    IF s # <<>> /\ Head(s) = "~" /\ (Len(s) = 1 \/ s[2] = "/")
    THEN <<"/home/u">> \o Tail(s)
    ELSE s

ExpandedCmd(cmd) == Strip(ExpandUser(ExpandVars(cmd)))

\* str.isprintable() on one character
IsPrintable(c) == c \notin {"\n", "\r", "\t", "BEL"}

RECURSIVE SanitizeChars(_)
SanitizeChars(s) ==
    IF s = <<>> THEN <<>>
    ELSE <<IF IsPrintable(Head(s)) /\ Head(s) \notin {"\n", "\r", "\t"}
           THEN Head(s) ELSE " ">> \o SanitizeChars(Tail(s))

DefaultTitle == <<"Dusky Terminal">>

SafeTitle(title) ==
    LET t == Strip(SanitizeChars(IF title = <<>> THEN DefaultTitle ELSE title))
    IN IF t = <<>> THEN DefaultTitle ELSE t

\* a metacharacter test that looks at the first character only
NeedsShell_FirstCharOnly(expanded) == expanded # <<>> /\ expanded[1] \in _SHELL_METACHARACTERS

NeedsShell(expanded) == \E i \in 1..Len(expanded) : expanded[i] \in _SHELL_METACHARACTERS

\* shlex.split on text free of quotes, backslashes and comments: the
\* whitespace-separated words.
RECURSIVE ShlexSplit(_, _)
ShlexSplit(s, cur) ==
    IF s = <<>> THEN (IF cur = <<>> THEN <<>> ELSE <<cur>>)
    ELSE IF Head(s) \in {" ", "\t", "\n", "\r"}
         THEN (IF cur = <<>> THEN <<>> ELSE <<cur>>) \o ShlexSplit(Tail(s), <<>>)
         ELSE ShlexSplit(Tail(s), cur \o <<Head(s)>>)

W(word) == <<word>>

ShellForm(expanded) == <<W("uwsm-app"), W("--"), W("sh"), W("-c"), expanded>>

TerminalForm(expanded, safe_title) ==
    <<W("uwsm-app"), W("--"), W("kitty"), W("--class"), W("dusky-term"),
      W("--title"), safe_title, W("--hold"), W("sh"), W("-c"), expanded>>

DirectForm(parsed) == <<W("uwsm-app"), W("--")>> \o parsed

\* The argument vector execute_command builds; <<>> when it returns early.
FullCmd(cmd, title, term) ==
    LET expanded == ExpandedCmd(cmd) IN
    IF cmd = <<>> THEN <<>>
    ELSE IF expanded = <<>> THEN <<>>
    ELSE IF term THEN TerminalForm(expanded, SafeTitle(title))
    ELSE IF NeedsShell(expanded) THEN ShellForm(expanded)
    ELSE LET parsed == ShlexSplit(expanded, <<>>) IN
         IF parsed = <<>> THEN <<>> ELSE DirectForm(parsed)

PopenOutcomes == {"ok", "FileNotFoundError", "OSError"}

execute_command(cmd, title, term, popen) ==
    LET full_cmd == FullCmd(cmd, title, term) IN
    /\ ex_argv' = full_cmd
    /\ IF full_cmd = <<>>
       THEN ex_ret' = FALSE /\ ex_spawned' = <<>>
       ELSE IF popen = "ok"
            THEN ex_ret' = TRUE /\ ex_spawned' = full_cmd
            ELSE ex_ret' = FALSE /\ ex_spawned' = <<>>

ExecInit ==
    /\ ex_pc = "call"
    /\ ex_cmd \in Commands
    /\ ex_title \in Titles
    /\ ex_term \in BOOLEAN
    /\ ex_argv = <<>>
    /\ ex_ret = FALSE
    /\ ex_spawned = <<>>

ExecuteCommand ==
    /\ ex_pc = "call"
    /\ ex_pc' = "done"
    /\ \E popen \in PopenOutcomes : execute_command(ex_cmd, ex_title, ex_term, popen)
    /\ UNCHANGED <<ex_cmd, ex_title, ex_term>>

ExecIdle ==
    /\ ex_pc = "done" /\ ex_cmd = <<>> /\ ex_title = <<>> /\ ex_term = FALSE
    /\ ex_argv = <<>> /\ ex_ret = FALSE /\ ex_spawned = <<>>

(***************************************************************************)
(* Config loader                                                            *)
(***************************************************************************)
ConfigPaths == {"config.yaml", "other.yaml"}

\* The mappings a YAML document of the model can hold (sets of key/value pairs).
Mappings == {{}, {<<"a", 1>>}, {<<"a", 1>>, <<"b", 2>>}}
EmptyMapping == {}

\* What a path holds: nothing, something that cannot be read, bytes that are
\* not UTF-8, or text that is a YAML document.
FileStates ==
    {[kind |-> "missing"], [kind |-> "denied"], [kind |-> "directory"],
     [kind |-> "undecodable"], [kind |-> "malformed"], [kind |-> "scalar"],
     [kind |-> "list"], [kind |-> "empty"]}
    \cup {[kind |-> "mapping", data |-> m] : m \in Mappings}

\* The exception classes involved and their base classes.
Bases(exc) ==
    CASE exc = "FileNotFoundError" -> {"FileNotFoundError", "OSError", "Exception"}
      [] exc = "PermissionError" -> {"PermissionError", "OSError", "Exception"}
      [] exc = "IsADirectoryError" -> {"IsADirectoryError", "OSError", "Exception"}
      [] exc = "OSError" -> {"OSError", "Exception"}
      [] exc = "UnicodeDecodeError" -> {"UnicodeDecodeError", "UnicodeError", "ValueError", "Exception"}
      [] exc = "UnicodeEncodeError" -> {"UnicodeEncodeError", "UnicodeError", "ValueError", "Exception"}
      [] exc = "ValueError" -> {"ValueError", "Exception"}
      [] exc = "YAMLError" -> {"YAMLError", "Exception"}
      [] OTHER -> {"Exception"}

IsInstance(exc, class) == class \in Bases(exc)

\* Path.read_text(encoding="utf-8")
ReadText(file) ==
    CASE file.kind = "missing" -> [exc |-> "FileNotFoundError"]
      [] file.kind = "denied" -> [exc |-> "PermissionError"]
      [] file.kind = "directory" -> [exc |-> "IsADirectoryError"]
      [] file.kind = "undecodable" -> [exc |-> "UnicodeDecodeError"]
      [] OTHER -> [exc |-> "none", content |-> file]

\* yaml.safe_load(content)
SafeLoad(content) ==
    CASE content.kind = "malformed" -> [exc |-> "YAMLError"]
      [] content.kind = "mapping" -> [exc |-> "none", type |-> "dict", data |-> content.data]
      [] content.kind = "scalar" -> [exc |-> "none", type |-> "str", data |-> "text"]
      [] content.kind = "list" -> [exc |-> "none", type |-> "list", data |-> <<1, 2>>]
      [] OTHER -> [exc |-> "none", type |-> "NoneType", data |-> "None"]

Return(v) == [kind |-> "return", value |-> v]
Raise(exc) == [kind |-> "raise", exc |-> exc]

\* the handlers of the first try: FileNotFoundError, then OSError
ReadHandled(exc) == IsInstance(exc, "FileNotFoundError") \/ IsInstance(exc, "OSError")

\* the handler of the second try: yaml.YAMLError
ParseHandled(exc) == IsInstance(exc, "YAMLError")

load_config(file) ==
    LET read == ReadText(file) IN
    IF read.exc # "none"
    THEN (IF ReadHandled(read.exc) THEN Return(EmptyMapping) ELSE Raise(read.exc))
    ELSE LET parsed == SafeLoad(read.content) IN
         IF parsed.exc # "none"
         THEN (IF ParseHandled(parsed.exc) THEN Return(EmptyMapping) ELSE Raise(parsed.exc))
         ELSE IF parsed.type = "dict" THEN Return(parsed.data) ELSE Return(EmptyMapping)

ConfigInit ==
    /\ cf_pc = "call"
    /\ cf_fs \in [ConfigPaths -> FileStates]
    /\ cf_path \in ConfigPaths
    /\ cf_result = Return(EmptyMapping)

ConfigIdle ==
    /\ cf_pc = "done"
    /\ cf_fs = [p \in ConfigPaths |-> [kind |-> "missing"]]
    /\ cf_path = "config.yaml"
    /\ cf_result = Return(EmptyMapping)

LoadConfig ==
    /\ cf_pc = "call"
    /\ cf_pc' = "done"
    /\ cf_result' = load_config(cf_fs[cf_path])
    /\ UNCHANGED <<cf_fs, cf_path>>

(***************************************************************************)
(* System-information cache                                                 *)
(***************************************************************************)
NumCacheThreads == 2
MaxComputes == 2

CacheThreads == 1..NumCacheThreads
NoThread == 0
None == "None"
LABEL_NA == "N/A"

SystemKeys == {"memory_total", "cpu_model", "gpu_model", "kernel_version", "unrecognized"}
OsSources == {"/proc/meminfo", "/proc/cpuinfo", "lspci"}

\* Each reads its source and yields the not-available label when the source
\* does not answer (an OSError, a timeout, no matching line).
_get_memory_total(os) == IF os["/proc/meminfo"] THEN "16.0 GB" ELSE LABEL_NA
_get_cpu_model(os) == IF os["/proc/cpuinfo"] THEN "cpu" ELSE LABEL_NA
_get_gpu_model(os) == IF os["lspci"] THEN "gpu" ELSE LABEL_NA

_compute_system_value(key, os) ==
    IF key = "memory_total" THEN _get_memory_total(os)
    ELSE IF key = "cpu_model" THEN _get_cpu_model(os)
    ELSE IF key = "gpu_model" THEN _get_gpu_model(os)
    ELSE IF key = "kernel_version" THEN "6.18"
    ELSE LABEL_NA

\* the test under the lock that skips the computation
InCacheNever(key) == FALSE

InCache(key) == sc_cache[key] # None

CacheInit ==
    /\ sc_cache = [k \in SystemKeys |-> None]
    /\ sc_lock = NoThread
    /\ sc_os \in [OsSources -> BOOLEAN]
    /\ sc_pc = [t \in CacheThreads |-> "idle"]
    /\ sc_key = [t \in CacheThreads |-> None]
    /\ sc_result = [t \in CacheThreads |-> None]
    /\ sc_ret = [t \in CacheThreads |-> None]
    /\ sc_computes = [k \in SystemKeys |-> 0]
    /\ sc_first = [k \in SystemKeys |-> None]

CacheIdle ==
    /\ sc_cache = [k \in SystemKeys |-> None]
    /\ sc_lock = NoThread
    /\ sc_os = [src \in OsSources |-> TRUE]
    /\ sc_pc = [t \in CacheThreads |-> "idle"]
    /\ sc_key = [t \in CacheThreads |-> None]
    /\ sc_result = [t \in CacheThreads |-> None]
    /\ sc_ret = [t \in CacheThreads |-> None]
    /\ sc_computes = [k \in SystemKeys |-> 0]
    /\ sc_first = [k \in SystemKeys |-> None]

\* get_system_value(key), lines 223-225: the unlocked read of the cache
FastPath(t) ==
    /\ sc_pc[t] = "idle"
    /\ \E key \in SystemKeys :
          /\ sc_key' = [sc_key EXCEPT ![t] = key]
          /\ IF sc_cache[key] # None
             THEN /\ sc_pc' = [sc_pc EXCEPT ![t] = "returned"]
                  /\ sc_ret' = [sc_ret EXCEPT ![t] = sc_cache[key]]
             ELSE /\ sc_pc' = [sc_pc EXCEPT ![t] = "lock"]
                  /\ sc_ret' = [sc_ret EXCEPT ![t] = None]
    /\ UNCHANGED <<sc_cache, sc_lock, sc_os, sc_result, sc_computes, sc_first>>

\* lines 227-230: take the lock and look again
LockAndRecheck(t) ==
    /\ sc_pc[t] = "lock"
    /\ sc_lock = NoThread
    /\ IF InCache(sc_key[t])
       THEN /\ sc_pc' = [sc_pc EXCEPT ![t] = "returned"]
            /\ sc_ret' = [sc_ret EXCEPT ![t] = sc_cache[sc_key[t]]]
            /\ sc_lock' = NoThread
       ELSE /\ sc_pc' = [sc_pc EXCEPT ![t] = "compute"]
            /\ sc_lock' = t
            /\ sc_ret' = sc_ret
    /\ UNCHANGED <<sc_cache, sc_os, sc_key, sc_result, sc_computes, sc_first>>

\* line 232: the computation, on the OS state of the moment
Compute(t) ==
    /\ sc_pc[t] = "compute"
    /\ sc_computes[sc_key[t]] < MaxComputes
    /\ sc_result' = [sc_result EXCEPT ![t] = _compute_system_value(sc_key[t], sc_os)]
    /\ sc_computes' = [sc_computes EXCEPT ![sc_key[t]] = @ + 1]
    /\ sc_pc' = [sc_pc EXCEPT ![t] = "store"]
    /\ UNCHANGED <<sc_cache, sc_lock, sc_os, sc_key, sc_ret, sc_first>>

\* lines 233-234: store, release the lock, return
StoreAndReturn(t) ==
    /\ sc_pc[t] = "store"
    /\ sc_cache' = [sc_cache EXCEPT ![sc_key[t]] = sc_result[t]]
    /\ sc_first' = [sc_first EXCEPT ![sc_key[t]] = IF @ = None THEN sc_result[t] ELSE @]
    /\ sc_ret' = [sc_ret EXCEPT ![t] = sc_result[t]]
    /\ sc_result' = [sc_result EXCEPT ![t] = None]
    /\ sc_lock' = NoThread
    /\ sc_pc' = [sc_pc EXCEPT ![t] = "returned"]
    /\ UNCHANGED <<sc_os, sc_key, sc_computes>>

\* the caller takes the value; the thread is free for another call
CallerContinues(t) ==
    /\ sc_pc[t] = "returned"
    /\ sc_pc' = [sc_pc EXCEPT ![t] = "idle"]
    /\ sc_key' = [sc_key EXCEPT ![t] = None]
    /\ sc_ret' = [sc_ret EXCEPT ![t] = None]
    /\ UNCHANGED <<sc_cache, sc_lock, sc_os, sc_result, sc_computes, sc_first>>

\* the environment: a source starts or stops answering
OsChanges ==
    /\ \E src \in OsSources : sc_os' = [sc_os EXCEPT ![src] = ~@]
    /\ UNCHANGED <<sc_cache, sc_lock, sc_pc, sc_key, sc_result, sc_ret, sc_computes, sc_first>>

(***************************************************************************)
(* Settings values: str(value) on save, typed parsing on load               *)
(***************************************************************************)
MaxInt == 12
MaxTenths == 15
MaxStrLen == 3

StrChars == {"a", " ", "\n", "\r"}
NoFile == [exists |-> FALSE, text |-> <<>>]
File(text) == [exists |-> TRUE, text |-> text]

VBool(b) == [type |-> "bool", val |-> b]
VInt(n) == [type |-> "int", val |-> n]
VFloat(f) == [type |-> "float", val |-> f]
VStr(s) == [type |-> "str", val |-> s]

\* a float is not-a-number, an infinity, or a number of tenths
Fin(k) == [kind |-> "fin", tenths |-> k]
NaN == [kind |-> "nan", tenths |-> 0]
Inf == [kind |-> "inf", tenths |-> 1]
NegInf == [kind |-> "inf", tenths |-> -1]

SettingValues ==
    {VBool(b) : b \in BOOLEAN}
    \cup {VInt(n) : n \in -MaxInt..MaxInt}
    \cup {VFloat(Fin(k)) : k \in -MaxTenths..MaxTenths}
    \cup {VFloat(NaN), VFloat(Inf), VFloat(NegInf)}
    \cup {VStr(s) : s \in SeqUpTo(StrChars, MaxStrLen)}

Digits == <<"0", "1", "2", "3", "4", "5", "6", "7", "8", "9">>
DigitChar(d) == Digits[d + 1]
IsDigit(c) == \E d \in 0..9 : DigitChar(d) = c
DigitValue(c) == CHOOSE d \in 0..9 : DigitChar(d) = c

RECURSIVE NatToStr(_)
NatToStr(n) == IF n < 10 THEN <<DigitChar(n)>> ELSE NatToStr(n \div 10) \o <<DigitChar(n % 10)>>

\* str(n) of an int
IntToStr(n) == IF n < 0 THEN <<"-">> \o NatToStr(-n) ELSE NatToStr(n)

\* str(x) of a float: repr's shortest decimal
FloatToStr(f) ==
    IF f.kind = "nan" THEN <<"n", "a", "n">>
    ELSE IF f.kind = "inf" THEN (IF f.tenths < 0 THEN <<"-">> ELSE <<>>) \o <<"i", "n", "f">>
    ELSE LET m == IF f.tenths < 0 THEN -f.tenths ELSE f.tenths IN
         (IF f.tenths < 0 THEN <<"-">> ELSE <<>>)
            \o NatToStr(m \div 10) \o <<".">> \o <<DigitChar(m % 10)>>

\* str(b) of a bool
BoolToStr(b) == IF b THEN <<"T", "r", "u", "e">> ELSE <<"F", "a", "l", "s", "e">>

\* lines 342-345: the text save_setting writes
Content(value, as_int) ==
    IF as_int /\ value.type = "bool" THEN IntToStr(IF value.val THEN 1 ELSE 0)
    ELSE CASE value.type = "bool" -> BoolToStr(value.val)
           [] value.type = "int" -> IntToStr(value.val)
           [] value.type = "float" -> FloatToStr(value.val)
           [] value.type = "str" -> value.val

\* reading in text mode: "\r\n" and "\r" are read as "\n"
RECURSIVE UniversalNewlines(_)
UniversalNewlines(s) ==
    IF s = <<>> THEN <<>>
    ELSE IF Head(s) = "\r"
         THEN <<"\n">> \o UniversalNewlines(
                  IF Len(s) >= 2 /\ s[2] = "\n" THEN Tail(Tail(s)) ELSE Tail(s))
         ELSE <<Head(s)>> \o UniversalNewlines(Tail(s))

\* str.lower() without the lowering
Lower_Identity(s) == s

\* str.lower() on the letters of the model
Lower(s) == [i \in 1..Len(s) |-> IF s[i] = "T" THEN "t" ELSE IF s[i] = "F" THEN "f" ELSE s[i]]

RECURSIVE DigitsToNat(_)
DigitsToNat(s) == IF s = <<>> THEN 0 ELSE DigitsToNat(SubSeq(s, 1, Len(s) - 1)) * 10 + DigitValue(s[Len(s)])

AllDigits(s) == s # <<>> /\ \A i \in 1..Len(s) : IsDigit(s[i])
HasSign(s) == s # <<>> /\ s[1] \in {"-", "+"}
Unsigned(s) == IF HasSign(s) THEN Tail(s) ELSE s
Signed(s, n) == IF s # <<>> /\ s[1] = "-" THEN -n ELSE n

\* int(text): ok is FALSE where Python raises ValueError
ParseInt(s) ==
    IF AllDigits(Unsigned(s))
    THEN [ok |-> TRUE, val |-> Signed(s, DigitsToNat(Unsigned(s)))]
    ELSE [ok |-> FALSE, val |-> 0]

\* float(text) for the literals the model writes: nan, inf, digits and
\* digits "." digit; ok is FALSE where Python raises ValueError
ParseFloat(s) ==
    LET u == Lower(Unsigned(s))
        dot == IF Len(u) >= 3 THEN Len(u) - 1 ELSE 0
    IN
    IF u = <<"n", "a", "n">> THEN [ok |-> TRUE, val |-> NaN]
    ELSE IF u = <<"i", "n", "f">> THEN [ok |-> TRUE, val |-> IF Signed(s, 1) < 0 THEN NegInf ELSE Inf]
    ELSE IF AllDigits(u) THEN [ok |-> TRUE, val |-> Fin(Signed(s, DigitsToNat(u) * 10))]
    ELSE IF dot > 0 /\ u[dot] = "." /\ AllDigits(SubSeq(u, 1, dot - 1)) /\ IsDigit(u[Len(u)])
         THEN [ok |-> TRUE,
               val |-> Fin(Signed(s, DigitsToNat(SubSeq(u, 1, dot - 1)) * 10 + DigitValue(u[Len(u)])))]
    ELSE [ok |-> FALSE, val |-> NaN]

TrueWords == {<<"t", "r", "u", "e">>, <<"y", "e", "s">>, <<"o", "n">>, <<"1">>}

_parse_bool(value, is_inversed) ==
    LET n == ParseInt(value)
        result == IF n.ok THEN n.val # 0 ELSE Lower(value) \in TrueWords
    IN result # is_inversed

\* lines 390-407, for a file that was read: the text is stripped and parsed
\* as the default's type says; a ValueError gives the default back
ParseSetting(text, default, is_inversed) ==
    LET value == Strip(text) IN
    CASE default.type = "bool" -> VBool(_parse_bool(value, is_inversed))
      [] default.type = "int" ->
            (IF ParseInt(value).ok THEN VInt(ParseInt(value).val) ELSE default)
      [] default.type = "float" ->
            (IF ParseFloat(value).ok THEN VFloat(ParseFloat(value).val) ELSE default)
      [] OTHER -> VStr(value)

RoundInit ==
    /\ rt_pc = "save"
    /\ rt_value \in SettingValues
    /\ rt_as_int \in BOOLEAN
    /\ rt_inv \in BOOLEAN
    /\ rt_saved = FALSE
    /\ rt_file = NoFile
    /\ rt_result = VStr(<<>>)

RoundIdle ==
    /\ rt_pc = "done"
    /\ rt_value = VStr(<<>>)
    /\ rt_as_int = FALSE
    /\ rt_inv = FALSE
    /\ rt_saved = FALSE
    /\ rt_file = NoFile
    /\ rt_result = VStr(<<>>)

\* save_setting(k, rt_value, rt_as_int) on a valid key: the text replaces the
\* file, or an OSError on the way leaves the file as it was
SaveValue ==
    /\ rt_pc = "save"
    /\ rt_pc' = "load"
    /\ \E ok \in BOOLEAN :
          /\ rt_saved' = ok
          /\ rt_file' = IF ok THEN File(Content(rt_value, rt_as_int)) ELSE rt_file
    /\ UNCHANGED <<rt_value, rt_as_int, rt_inv, rt_result>>

\* load_setting(k, default=rt_value, is_inversed=rt_inv)
LoadValue ==
    /\ rt_pc = "load"
    /\ rt_pc' = "done"
    /\ rt_result' = IF ~rt_file.exists THEN rt_value
                     ELSE ParseSetting(UniversalNewlines(rt_file.text), rt_value, rt_inv)
    /\ UNCHANGED <<rt_value, rt_as_int, rt_inv, rt_saved, rt_file>>

(***************************************************************************)
(* Settings keys: _validate_key_path and the paths a call works on          *)
(* A path is the sequence of its components from the root; a component is   *)
(* a sequence of characters.                                                *)
(***************************************************************************)
MaxKeyLen == 4

KeyChars == {"s", ".", "/", "NUL"}
SettingKeys == SeqUpTo(KeyChars, MaxKeyLen)

Root == <<>>
SETTINGS_DIR == <<<<"s">>>>

RECURSIVE SplitPath(_, _)
SplitPath(s, cur) ==
    IF s = <<>> THEN <<cur>>
    ELSE IF Head(s) = "/" THEN <<cur>> \o SplitPath(Tail(s), <<>>)
    ELSE SplitPath(Tail(s), cur \o <<Head(s)>>)

\* the components pathlib keeps: empty ones and "." are dropped
PathParts(key) == SelectSeq(SplitPath(key, <<>>), LAMBDA c : c # <<>> /\ c # <<".">>)

IsAbsolute(key) == key # <<>> /\ key[1] = "/"

\* SETTINGS_DIR / key
JoinKey(key) == IF IsAbsolute(key) THEN PathParts(key) ELSE SETTINGS_DIR \o PathParts(key)

\* Path.resolve() where nothing is a symbolic link: ".." steps up, the root
\* is its own parent
RECURSIVE ResolvePath(_, _)
ResolvePath(parts, acc) ==
    IF parts = <<>> THEN acc
    ELSE IF Head(parts) = <<".", ".">>
         THEN ResolvePath(Tail(parts), IF acc = <<>> THEN <<>> ELSE SubSeq(acc, 1, Len(acc) - 1))
         ELSE ResolvePath(Tail(parts), acc \o <<Head(parts)>>)

IsPrefix(a, b) == Len(a) <= Len(b) /\ SubSeq(b, 1, Len(a)) = a

\* key_path.relative_to(resolved_base) does not raise ValueError
RelativeTo(path, base) == IsPrefix(base, path)

Parent(path) == IF path = <<>> THEN <<>> ELSE SubSeq(path, 1, Len(path) - 1)
Prefixes(path) == {SubSeq(path, 1, n) : n \in 0..Len(path)}

\* Path.mkdir(parents=True, exist_ok=True): an OSError when the path or one
\* of its parents is a regular file, else the missing directories are made
MkdirFails(path, files) == Prefixes(path) \cap files # {}
MkdirMakes(path, dirs) == Prefixes(path) \ dirs

\* the name mkstemp gives the temporary file of a target (its random part left out)
TmpName(name) == <<".">> \o name \o <<".", "tmp">>
TmpPath(key_path) ==
    Parent(key_path) \o <<TmpName(IF key_path = <<>> THEN <<>> ELSE key_path[Len(key_path)])>>

Unset == [set |-> FALSE, path |-> <<>>]
Resolved(path) == [set |-> TRUE, path |-> path]

\* _validate_key_path(key) on a cache and a set of directories: the path it
\* returns (valid FALSE for None), the cache and the directories it leaves
HasNul(key) == \E i \in 1..Len(key) : key[i] = "NUL"

_validate_key_path(key, cache, dirs, files) ==
    LET untouched == [valid |-> FALSE, path |-> <<>>, cache |-> cache, made |-> {}] IN
    IF key = <<>> THEN untouched
    ELSE IF HasNul(key) THEN untouched
    ELSE \* _get_resolved_settings_dir()
         IF ~cache.set /\ MkdirFails(SETTINGS_DIR, files) THEN untouched
         ELSE LET made == IF cache.set THEN {} ELSE MkdirMakes(SETTINGS_DIR, dirs)
                  resolved_base == IF cache.set THEN cache.path ELSE ResolvePath(SETTINGS_DIR, <<>>)
                  key_path == ResolvePath(JoinKey(key), <<>>)
              IN [valid |-> RelativeTo(key_path, resolved_base),
                  path |-> IF RelativeTo(key_path, resolved_base) THEN key_path ELSE <<>>,
                  cache |-> Resolved(resolved_base),
                  made |-> made]

\* the file systems a call can find
FileSystems ==
    {[dirs |-> {Root}, files |-> {}],
     [dirs |-> {Root, SETTINGS_DIR}, files |-> {}],
     [dirs |-> {Root, SETTINGS_DIR, SETTINGS_DIR \o <<<<"s">>>>},
      files |-> {SETTINGS_DIR \o <<<<"s">>, <<"s">>>>, SETTINGS_DIR \o <<<<"s", "s">>>>}]}

KeyInit ==
    /\ ks_pc = "call"
    /\ ks_key \in SettingKeys
    /\ \E fs \in FileSystems :
          /\ ks_dirs = fs.dirs
          /\ ks_files = fs.files
          /\ ks_cache \in {Unset} \cup (IF SETTINGS_DIR \in fs.dirs THEN {Resolved(SETTINGS_DIR)} ELSE {})
    /\ ks_valid = FALSE
    /\ ks_keypath = <<>>
    /\ ks_fileOps = {}
    /\ ks_dirOps = {}

KeyIdle ==
    /\ ks_pc = "done"
    /\ ks_key = <<>>
    /\ ks_cache = Unset
    /\ ks_dirs = {Root}
    /\ ks_files = {}
    /\ ks_valid = FALSE
    /\ ks_keypath = <<>>
    /\ ks_fileOps = {}
    /\ ks_dirOps = {}

\* save_setting(ks_key, value): validation, the parent directory, the
\* temporary file, the rename onto the target, the clean-up
SaveKey ==
    /\ ks_pc = "call"
    /\ ks_pc' = "done"
    /\ LET v == _validate_key_path(ks_key, ks_cache, ks_dirs, ks_files)
           dirs1 == ks_dirs \cup v.made
           parent == Parent(v.path)
           tmp_path == TmpPath(v.path)
       IN
       /\ ks_valid' = v.valid
       /\ ks_keypath' = v.path
       /\ ks_cache' = v.cache
       /\ IF ~v.valid
          THEN \* line 340
               /\ ks_dirs' = dirs1
               /\ ks_dirOps' = v.made
               /\ ks_fileOps' = {}
               /\ ks_files' = ks_files
          ELSE IF MkdirFails(parent, ks_files)
          THEN \* line 349 raises OSError
               /\ ks_dirs' = dirs1
               /\ ks_dirOps' = v.made
               /\ ks_fileOps' = {}
               /\ ks_files' = ks_files
          ELSE \* the temporary file is created and written; os.replace fails
               \* on a directory and the temporary file is unlinked
               /\ ks_dirs' = dirs1 \cup MkdirMakes(parent, dirs1)
               /\ ks_dirOps' = v.made \cup MkdirMakes(parent, dirs1)
               /\ IF v.path \in ks_dirs' \/ v.path = Root
                  THEN /\ ks_fileOps' = {tmp_path}
                       /\ ks_files' = ks_files
                  ELSE /\ ks_fileOps' = {tmp_path, v.path}
                       /\ ks_files' = ks_files \cup {v.path}
    /\ UNCHANGED ks_key

\* load_setting(ks_key, default): validation, then the file is read
LoadKey ==
    /\ ks_pc = "call"
    /\ ks_pc' = "done"
    /\ LET v == _validate_key_path(ks_key, ks_cache, ks_dirs, ks_files) IN
       /\ ks_valid' = v.valid
       /\ ks_keypath' = v.path
       /\ ks_cache' = v.cache
       /\ ks_dirs' = ks_dirs \cup v.made
       /\ ks_dirOps' = v.made
       /\ ks_fileOps' = IF v.valid THEN {v.path} ELSE {}
    /\ UNCHANGED <<ks_key, ks_files>>

(***************************************************************************)
(* Atomic save: threads running save_setting and load_setting on one key    *)
(* The content of a call is two equal pieces (the call's number), written   *)
(* through the descriptor one piece at a time; a file is an inode, named    *)
(* by the key's path or by a temporary name, and reached through the        *)
(* descriptors open on it.                                                  *)
(***************************************************************************)
NumSaveThreads == 2
NumFds == 2
MaxCalls == 3

SaveThreads == 1..NumSaveThreads
Fds == 1..NumFds
NoFd == 0
NoInode == -1
PriorInode == 0
NotRead == <<"NotRead">>
Default == <<"default">>

\* the lowest free descriptor, NoFd when the table is full (EMFILE)
LowestFree(fds) ==
    IF \E d \in Fds : fds[d] = NoInode
    THEN CHOOSE d \in Fds : fds[d] = NoInode /\ \A e \in Fds : fds[e] = NoInode => d <= e
    ELSE NoFd

IsOpen(fd) == fd # NoFd /\ ss_fds[fd] # NoInode

\* the content save_setting writes in the call that created inode n
Pieces(n) == <<n, n>>

SaveInit ==
    /\ ss_pc = [t \in SaveThreads |-> "idle"]
    /\ ss_fd = [t \in SaveThreads |-> NoFd]
    /\ ss_call = [t \in SaveThreads |-> NoInode]
    /\ ss_tmp = [t \in SaveThreads |-> FALSE]
    /\ ss_buf = [t \in SaveThreads |-> 0]
    /\ ss_exc = [t \in SaveThreads |-> "none"]
    /\ ss_closes = [t \in SaveThreads |-> 0]
    /\ ss_failed = [t \in SaveThreads |-> FALSE]
    /\ ss_renamed = [t \in SaveThreads |-> FALSE]
    /\ ss_raised = [t \in SaveThreads |-> FALSE]
    /\ ss_unlinkErr = [t \in SaveThreads |-> FALSE]
    /\ ss_observed = [t \in SaveThreads |-> NotRead]
    /\ ss_fds = [d \in Fds |-> NoInode]
    /\ ss_owner = [d \in Fds |-> NoThread]
    /\ ss_content = [i \in {PriorInode} |-> Pieces(PriorInode)]
    /\ ss_target = PriorInode
    /\ ss_tmpNames = {}
    /\ ss_nextInode = 1
    /\ ss_foreign = FALSE

SaveIdle == SaveInit

\* a thread's locals when a call starts
FreshCall(t, pc, fd, failed) ==
    /\ ss_pc' = [ss_pc EXCEPT ![t] = pc]
    /\ ss_fd' = [ss_fd EXCEPT ![t] = fd]
    /\ ss_call' = [ss_call EXCEPT ![t] = NoInode]
    /\ ss_tmp' = [ss_tmp EXCEPT ![t] = FALSE]
    /\ ss_buf' = [ss_buf EXCEPT ![t] = 0]
    /\ ss_exc' = [ss_exc EXCEPT ![t] = "none"]
    /\ ss_closes' = [ss_closes EXCEPT ![t] = 0]
    /\ ss_failed' = [ss_failed EXCEPT ![t] = failed]
    /\ ss_renamed' = [ss_renamed EXCEPT ![t] = FALSE]
    /\ ss_raised' = [ss_raised EXCEPT ![t] = FALSE]
    /\ ss_unlinkErr' = [ss_unlinkErr EXCEPT ![t] = FALSE]
    /\ ss_observed' = [ss_observed EXCEPT ![t] = NotRead]

\* close(fd) on the descriptor table: the table and the owners it leaves,
\* and whether the descriptor was another thread's
CloseFds(fd) == IF IsOpen(fd) THEN [ss_fds EXCEPT ![fd] = NoInode] ELSE ss_fds
CloseOwner(fd) == IF IsOpen(fd) THEN [ss_owner EXCEPT ![fd] = NoThread] ELSE ss_owner
ClosesForeign(t, fd) == IsOpen(fd) /\ ss_owner[fd] # t

\* an exception raised in thread t: it replaces the one in flight
Raised(t, exc) == [ss_exc EXCEPT ![t] = exc]
Failed(t) == [ss_failed EXCEPT ![t] = TRUE]
Goto(t, pc) == [ss_pc EXCEPT ![t] = pc]

\* lines 338-349: the key is valid, the content is made, the parent
\* directory is made; an OSError of mkdir is swallowed at line 369
BeginSave(t) ==
    /\ ss_pc[t] \in {"idle", "done"}
    /\ ss_nextInode <= MaxCalls
    /\ \E ok \in BOOLEAN : FreshCall(t, IF ok THEN "mkstemp" ELSE "done", NoFd, ~ok)
    /\ UNCHANGED <<ss_fds, ss_owner, ss_content, ss_target, ss_tmpNames, ss_nextInode,
                   ss_foreign>>

\* lines 352-356: tempfile.mkstemp, or its OSError
Mkstemp(t) ==
    /\ ss_pc[t] = "mkstemp"
    /\ \/ /\ LowestFree(ss_fds) # NoFd
          /\ ss_nextInode <= MaxCalls
          /\ LET fd == LowestFree(ss_fds) IN
             /\ ss_fd' = [ss_fd EXCEPT ![t] = fd]
             /\ ss_fds' = [ss_fds EXCEPT ![fd] = ss_nextInode]
             /\ ss_owner' = [ss_owner EXCEPT ![fd] = t]
          /\ ss_call' = [ss_call EXCEPT ![t] = ss_nextInode]
          /\ ss_tmp' = [ss_tmp EXCEPT ![t] = TRUE]
          /\ ss_content' = [i \in DOMAIN ss_content \cup {ss_nextInode} |->
                               IF i = ss_nextInode THEN <<>> ELSE ss_content[i]]
          /\ ss_tmpNames' = ss_tmpNames \cup {ss_nextInode}
          /\ ss_nextInode' = ss_nextInode + 1
          /\ ss_pc' = Goto(t, "fdopen")
          /\ UNCHANGED <<ss_exc, ss_failed>>
       \/ /\ ss_exc' = Raised(t, "OSError")
          /\ ss_failed' = Failed(t)
          /\ ss_pc' = Goto(t, "handlers")
          /\ UNCHANGED <<ss_fd, ss_fds, ss_owner, ss_call, ss_tmp, ss_content, ss_tmpNames,
                         ss_nextInode>>
    /\ UNCHANGED <<ss_buf, ss_closes, ss_renamed, ss_raised, ss_unlinkErr, ss_observed,
                   ss_target, ss_foreign>>

\* line 358: os.fdopen(fd, "w"); it raises OSError when fd is not an open
\* descriptor, and may raise on an open one
Fdopen(t) ==
    /\ ss_pc[t] = "fdopen"
    /\ \/ /\ IsOpen(ss_fd[t])
          /\ ss_pc' = Goto(t, "write")
          /\ UNCHANGED <<ss_exc, ss_failed>>
       \/ /\ ss_exc' = Raised(t, "OSError")
          /\ ss_failed' = Failed(t)
          /\ ss_pc' = Goto(t, "except_close")
    /\ UNCHANGED <<ss_fd, ss_call, ss_tmp, ss_buf, ss_closes, ss_renamed, ss_raised,
                   ss_unlinkErr, ss_observed, ss_fds, ss_owner, ss_content, ss_target,
                   ss_tmpNames, ss_nextInode, ss_foreign>>

\* line 359: f.write(content) encodes the text into the buffer;
\* UnicodeEncodeError when the text cannot be encoded
Write(t) ==
    /\ ss_pc[t] = "write"
    /\ \/ /\ ss_buf' = [ss_buf EXCEPT ![t] = Len(Pieces(ss_call[t]))]
          /\ ss_pc' = Goto(t, "flush")
          /\ UNCHANGED <<ss_exc, ss_failed>>
       \/ /\ ss_exc' = Raised(t, "UnicodeEncodeError")
          /\ ss_failed' = Failed(t)
          /\ ss_pc' = Goto(t, "with_exit")
          /\ UNCHANGED ss_buf
    /\ UNCHANGED <<ss_fd, ss_call, ss_tmp, ss_closes, ss_renamed, ss_raised,
                   ss_unlinkErr, ss_observed, ss_fds, ss_owner, ss_content, ss_target,
                   ss_tmpNames, ss_nextInode, ss_foreign>>

\* one piece of the buffer goes to the file the descriptor is open on
WritePiece(t) == [ss_content EXCEPT ![ss_fds[ss_fd[t]]] = Append(@, ss_call[t])]

\* line 360: f.flush() writes the buffer through the descriptor, a piece at
\* a time; OSError when the descriptor is closed or the write fails
Flush(t) ==
    /\ ss_pc[t] = "flush"
    /\ \/ /\ IsOpen(ss_fd[t])
          /\ ss_content' = WritePiece(t)
          /\ ss_buf' = [ss_buf EXCEPT ![t] = @ - 1]
          /\ ss_pc' = Goto(t, IF ss_buf[t] = 1 THEN "fsync" ELSE "flush")
          /\ UNCHANGED <<ss_exc, ss_failed>>
       \/ /\ ss_exc' = Raised(t, "OSError")
          /\ ss_failed' = Failed(t)
          /\ ss_pc' = Goto(t, "with_exit")
          /\ UNCHANGED <<ss_content, ss_buf>>
    /\ UNCHANGED <<ss_fd, ss_call, ss_tmp, ss_closes, ss_renamed, ss_raised,
                   ss_unlinkErr, ss_observed, ss_fds, ss_owner, ss_target,
                   ss_tmpNames, ss_nextInode, ss_foreign>>

\* line 361: os.fsync(f.fileno())
Fsync(t) ==
    /\ ss_pc[t] = "fsync"
    /\ \/ /\ IsOpen(ss_fd[t])
          /\ UNCHANGED <<ss_exc, ss_failed>>
       \/ /\ ss_exc' = Raised(t, "OSError")
          /\ ss_failed' = Failed(t)
    /\ ss_pc' = Goto(t, "with_exit")
    /\ UNCHANGED <<ss_fd, ss_call, ss_tmp, ss_buf, ss_closes, ss_renamed, ss_raised,
                   ss_unlinkErr, ss_observed, ss_fds, ss_owner, ss_content, ss_target,
                   ss_tmpNames, ss_nextInode, ss_foreign>>

\* the end of the with block of line 358: f.close() writes what is left in
\* the buffer if it can, then closes the descriptor number whatever is open
\* on it; a write that fails or a number that is not open raises OSError.
\* With an exception in flight control goes to the bare except of line 362,
\* else to os.replace.
WithExit(t) ==
    /\ ss_pc[t] = "with_exit"
    /\ \/ /\ ss_buf[t] > 0 /\ IsOpen(ss_fd[t])
          /\ ss_content' = WritePiece(t)
          /\ ss_buf' = [ss_buf EXCEPT ![t] = @ - 1]
          /\ UNCHANGED <<ss_pc, ss_exc, ss_failed, ss_closes, ss_fds, ss_owner, ss_foreign>>
       \/ /\ ss_buf' = [ss_buf EXCEPT ![t] = 0]
          /\ ss_closes' = [ss_closes EXCEPT ![t] = @ + 1]
          /\ ss_fds' = CloseFds(ss_fd[t])
          /\ ss_owner' = CloseOwner(ss_fd[t])
          /\ ss_foreign' = (ss_foreign \/ ClosesForeign(t, ss_fd[t]))
          /\ LET exc == IF IsOpen(ss_fd[t]) /\ ss_buf[t] = 0 THEN ss_exc[t] ELSE "OSError" IN
             /\ ss_exc' = Raised(t, exc)
             /\ ss_failed' = [ss_failed EXCEPT ![t] = @ \/ exc # "none"]
             /\ ss_pc' = Goto(t, IF exc # "none" THEN "except_close" ELSE "replace")
          /\ UNCHANGED ss_content
    /\ UNCHANGED <<ss_fd, ss_call, ss_tmp, ss_renamed, ss_raised, ss_unlinkErr,
                   ss_observed, ss_target, ss_tmpNames, ss_nextInode>>

\* lines 362-364: os.close(fd), then raise: the descriptor number is closed
\* whatever is open on it now; on a number that is not open os.close raises
\* OSError, which replaces the exception in flight
ExceptClose(t) ==
    /\ ss_pc[t] = "except_close"
    /\ ss_closes' = [ss_closes EXCEPT ![t] = @ + 1]
    /\ ss_fds' = CloseFds(ss_fd[t])
    /\ ss_owner' = CloseOwner(ss_fd[t])
    /\ ss_foreign' = (ss_foreign \/ ClosesForeign(t, ss_fd[t]))
    /\ ss_exc' = IF IsOpen(ss_fd[t]) THEN ss_exc ELSE Raised(t, "OSError")
    /\ ss_pc' = Goto(t, "handlers")
    /\ UNCHANGED <<ss_fd, ss_call, ss_tmp, ss_buf, ss_failed, ss_renamed, ss_raised,
                   ss_unlinkErr, ss_observed, ss_content, ss_target, ss_tmpNames,
                   ss_nextInode>>

\* lines 366-367: os.replace(tmp_path, key_path), or its OSError
Replace(t) ==
    /\ ss_pc[t] = "replace"
    /\ \/ /\ ss_target' = ss_call[t]
          /\ ss_tmpNames' = ss_tmpNames \ {ss_call[t]}
          /\ ss_tmp' = [ss_tmp EXCEPT ![t] = FALSE]
          /\ ss_renamed' = [ss_renamed EXCEPT ![t] = TRUE]
          /\ UNCHANGED <<ss_exc, ss_failed>>
       \/ /\ ss_exc' = Raised(t, "OSError")
          /\ ss_failed' = Failed(t)
          /\ UNCHANGED <<ss_target, ss_tmpNames, ss_tmp, ss_renamed>>
    /\ ss_pc' = Goto(t, "handlers")
    /\ UNCHANGED <<ss_fd, ss_call, ss_buf, ss_closes, ss_raised, ss_unlinkErr,
                   ss_observed, ss_fds, ss_owner, ss_content, ss_nextInode, ss_foreign>>

\* a finally clause that never removes the temporary file
CleanupNever(t) == FALSE

\* line 372: tmp_path is not None
CleanupNeeded(t) == ss_tmp[t]

\* lines 369-376: except OSError swallows an OSError; finally unlinks the
\* temporary file if tmp_path is set, swallowing the OSError of a failed
\* unlink; an exception of another class leaves save_setting
Handlers(t) ==
    /\ ss_pc[t] = "handlers"
    /\ ss_pc' = Goto(t, "done")
    /\ ss_exc' = [ss_exc EXCEPT ![t] = "none"]
    /\ ss_raised' = [ss_raised EXCEPT ![t] =
                        ss_exc[t] # "none" /\ ~IsInstance(ss_exc[t], "OSError")]
    /\ IF CleanupNeeded(t)
       THEN \/ /\ ss_tmpNames' = ss_tmpNames \ {ss_call[t]}
               /\ UNCHANGED ss_unlinkErr
            \/ /\ ss_unlinkErr' = [ss_unlinkErr EXCEPT ![t] = TRUE]
               /\ UNCHANGED ss_tmpNames
       ELSE UNCHANGED <<ss_tmpNames, ss_unlinkErr>>
    /\ UNCHANGED <<ss_fd, ss_call, ss_tmp, ss_buf, ss_closes, ss_failed, ss_renamed,
                   ss_observed, ss_fds, ss_owner, ss_content, ss_target, ss_nextInode,
                   ss_foreign>>

\* load_setting, line 390: read_text opens the key's file; OSError when no
\* descriptor is free, and the default is returned
ReadOpen(t) ==
    /\ ss_pc[t] \in {"idle", "done"}
    /\ LET fd == LowestFree(ss_fds) IN
       /\ FreshCall(t, IF fd = NoFd THEN "done" ELSE "read", fd, FALSE)
       /\ IF fd = NoFd
          THEN UNCHANGED <<ss_fds, ss_owner>>
          ELSE /\ ss_fds' = [ss_fds EXCEPT ![fd] = ss_target]
               /\ ss_owner' = [ss_owner EXCEPT ![fd] = t]
    /\ UNCHANGED <<ss_content, ss_target, ss_tmpNames, ss_nextInode, ss_foreign>>

\* read_text reads through the descriptor: the content of the file that is
\* open on that number now, OSError when the number is not open
ReadAll(t) ==
    /\ ss_pc[t] = "read"
    /\ ss_observed' = [ss_observed EXCEPT ![t] =
                          IF IsOpen(ss_fd[t]) THEN ss_content[ss_fds[ss_fd[t]]] ELSE Default]
    /\ ss_pc' = Goto(t, "read_close")
    /\ UNCHANGED <<ss_fd, ss_call, ss_tmp, ss_buf, ss_exc, ss_closes, ss_failed,
                   ss_renamed, ss_raised, ss_unlinkErr, ss_fds, ss_owner, ss_content,
                   ss_target, ss_tmpNames, ss_nextInode, ss_foreign>>

\* read_text closes the file; an OSError of the close gives the default
\* (lines 393-395)
ReadClose(t) ==
    /\ ss_pc[t] = "read_close"
    /\ ss_fds' = CloseFds(ss_fd[t])
    /\ ss_owner' = CloseOwner(ss_fd[t])
    /\ ss_foreign' = (ss_foreign \/ ClosesForeign(t, ss_fd[t]))
    /\ ss_observed' = [ss_observed EXCEPT ![t] = IF IsOpen(ss_fd[t]) THEN @ ELSE Default]
    /\ ss_pc' = Goto(t, "done")
    /\ UNCHANGED <<ss_fd, ss_call, ss_tmp, ss_buf, ss_exc, ss_closes, ss_failed,
                   ss_renamed, ss_raised, ss_unlinkErr, ss_content, ss_target,
                   ss_tmpNames, ss_nextInode>>

(***************************************************************************)
(* Specifications                                                           *)
(***************************************************************************)
InitExec == ExecInit /\ ConfigIdle /\ CacheIdle /\ RoundIdle /\ KeyIdle /\ SaveIdle
NextExec == ExecuteCommand /\ UNCHANGED <<configVars, cacheVars, roundVars, keyVars, saveVars>>
SpecExec == InitExec /\ [][NextExec]_vars

InitConfig == ConfigInit /\ ExecIdle /\ CacheIdle /\ RoundIdle /\ KeyIdle /\ SaveIdle
NextConfig == LoadConfig /\ UNCHANGED <<execVars, cacheVars, roundVars, keyVars, saveVars>>
SpecConfig == InitConfig /\ [][NextConfig]_vars

InitCache == CacheInit /\ ExecIdle /\ ConfigIdle /\ RoundIdle /\ KeyIdle /\ SaveIdle
NextCache ==
    \/ \E t \in CacheThreads : FastPath(t) /\ UNCHANGED <<execVars, configVars, roundVars, keyVars, saveVars>>
    \/ \E t \in CacheThreads : LockAndRecheck(t) /\ UNCHANGED <<execVars, configVars, roundVars, keyVars, saveVars>>
    \/ \E t \in CacheThreads : Compute(t) /\ UNCHANGED <<execVars, configVars, roundVars, keyVars, saveVars>>
    \/ \E t \in CacheThreads : StoreAndReturn(t) /\ UNCHANGED <<execVars, configVars, roundVars, keyVars, saveVars>>
    \/ \E t \in CacheThreads : CallerContinues(t) /\ UNCHANGED <<execVars, configVars, roundVars, keyVars, saveVars>>
    \/ OsChanges /\ UNCHANGED <<execVars, configVars, roundVars, keyVars, saveVars>>
SpecCache == InitCache /\ [][NextCache]_vars

InitRound == RoundInit /\ ExecIdle /\ ConfigIdle /\ CacheIdle /\ KeyIdle /\ SaveIdle
NextRound ==
    \/ SaveValue /\ UNCHANGED <<execVars, configVars, cacheVars, keyVars, saveVars>>
    \/ LoadValue /\ UNCHANGED <<execVars, configVars, cacheVars, keyVars, saveVars>>
SpecRound == InitRound /\ [][NextRound]_vars

InitKey == KeyInit /\ ExecIdle /\ ConfigIdle /\ CacheIdle /\ RoundIdle /\ SaveIdle
NextKey ==
    \/ SaveKey /\ UNCHANGED <<execVars, configVars, cacheVars, roundVars, saveVars>>
    \/ LoadKey /\ UNCHANGED <<execVars, configVars, cacheVars, roundVars, saveVars>>
SpecKey == InitKey /\ [][NextKey]_vars

InitSave == SaveInit /\ ExecIdle /\ ConfigIdle /\ CacheIdle /\ RoundIdle /\ KeyIdle
NotSaveVars == <<execVars, configVars, cacheVars, roundVars, keyVars>>
NextSave ==
    \/ \E t \in SaveThreads : BeginSave(t) /\ UNCHANGED NotSaveVars
    \/ \E t \in SaveThreads : Mkstemp(t) /\ UNCHANGED NotSaveVars
    \/ \E t \in SaveThreads : Fdopen(t) /\ UNCHANGED NotSaveVars
    \/ \E t \in SaveThreads : Write(t) /\ UNCHANGED NotSaveVars
    \/ \E t \in SaveThreads : Flush(t) /\ UNCHANGED NotSaveVars
    \/ \E t \in SaveThreads : Fsync(t) /\ UNCHANGED NotSaveVars
    \/ \E t \in SaveThreads : WithExit(t) /\ UNCHANGED NotSaveVars
    \/ \E t \in SaveThreads : ExceptClose(t) /\ UNCHANGED NotSaveVars
    \/ \E t \in SaveThreads : Replace(t) /\ UNCHANGED NotSaveVars
    \/ \E t \in SaveThreads : Handlers(t) /\ UNCHANGED NotSaveVars
    \/ \E t \in SaveThreads : ReadOpen(t) /\ UNCHANGED NotSaveVars
    \/ \E t \in SaveThreads : ReadAll(t) /\ UNCHANGED NotSaveVars
    \/ \E t \in SaveThreads : ReadClose(t) /\ UNCHANGED NotSaveVars
SpecSave == InitSave /\ [][NextSave]_vars

(***************************************************************************)
(* Claims                                                                   *)
(***************************************************************************)
\* C6: load_config never raises: whatever reading and parsing do, it returns
\* a mapping, the parsed one when the read succeeds and the document's top
\* level is a mapping, the empty one otherwise.
C6_TotalNeverRaises ==
    cf_pc = "done" =>
        /\ cf_result.kind = "return"
        /\ cf_result.value =
              (IF cf_fs[cf_path].kind = "mapping" THEN cf_fs[cf_path].data ELSE EmptyMapping)

RECURSIVE Flatten(_)
Flatten(ws) == IF ws = <<>> THEN <<>> ELSE Head(ws) \o Flatten(Tail(ws))

IsSpace(c) == c \in {" ", "\t", "\n", "\r"}
NonSpaces(s) == SelectSeq(s, LAMBDA c : ~IsSpace(c))
WordStarts(s) == {i \in 1..Len(s) : ~IsSpace(s[i]) /\ (i = 1 \/ IsSpace(s[i - 1]))}
HasMetachar(s) == {s[i] : i \in 1..Len(s)} \cap _SHELL_METACHARACTERS # {}

\* C7: execute_command spawns by the decision table: a command that is blank
\* after expansion and trimming fails and spawns nothing; otherwise a terminal
\* launch is wrapper, terminal emulator, shell, command string; otherwise a
\* command with a shell metacharacter is wrapper, shell, command string;
\* otherwise it is the wrapper followed by the command's words, with no shell
\* layer; whatever is spawned begins with the launch wrapper.
C7_DecisionTable ==
    LET e == ExpandedCmd(ex_cmd)
        words == SubSeq(ex_argv, 3, Len(ex_argv))
    IN
    ex_pc = "done" =>
    /\ e = <<>> => (~ex_ret /\ ex_argv = <<>> /\ ex_spawned = <<>>)
    /\ (e # <<>> /\ ex_term) =>
          /\ Len(ex_argv) = 11
          /\ SubSeq(ex_argv, 1, 3) = <<W("uwsm-app"), W("--"), W("kitty")>>
          /\ SubSeq(ex_argv, 9, 11) = <<W("sh"), W("-c"), e>>
    /\ (e # <<>> /\ ~ex_term /\ HasMetachar(e)) =>
          ex_argv = <<W("uwsm-app"), W("--"), W("sh"), W("-c"), e>>
    /\ (e # <<>> /\ ~ex_term /\ ~HasMetachar(e)) =>
          /\ SubSeq(ex_argv, 1, 2) = <<W("uwsm-app"), W("--")>>
          /\ \A i \in 1..Len(ex_argv) : ex_argv[i] # W("sh")
          /\ Len(words) = Cardinality(WordStarts(e))
          /\ \A i \in 1..Len(words) : words[i] # <<>> /\ NonSpaces(words[i]) = words[i]
          /\ Flatten(words) = NonSpaces(e)
    /\ ex_spawned # <<>> =>
          (ex_ret /\ ex_spawned = ex_argv /\ ex_spawned[1] = W("uwsm-app"))
    /\ ex_ret => ex_spawned # <<>>

\* a piped command launched outside a terminal went through the shell
C7_Witness_Pipe ==
    /\ ex_pc = "done"
    /\ ~ex_term /\ ex_ret
    /\ \E i \in 1..Len(ex_cmd) : ex_cmd[i] = "|"
    /\ ex_spawned = ShellForm(ExpandedCmd(ex_cmd))
    /\ Len(ExpandedCmd(ex_cmd)) >= 3

PyEq(a, b) ==
    /\ a.type = b.type
    /\ a.val = b.val
    /\ (a.type = "float" => a.val.kind # "nan")

RoundTripHolds ==
    IF rt_value.type = "bool"
    THEN rt_result = VBool(IF rt_inv THEN ~rt_value.val ELSE rt_value.val)
    ELSE ~rt_inv => PyEq(rt_result, rt_value)

\* C4 as stated: after a successful save_setting(k, v), load_setting(k,
\* default=v) returns a value equal to v for every bool, int, float and
\* string v, and the negation of a boolean v when is_inversed is set.
C4_RoundTrip_Original == (rt_pc = "done" /\ rt_saved) => RoundTripHolds

\* the values the round trip gives back: every bool and int, every float but
\* NaN, every string with no whitespace at either end and no carriage return
Survives(v) ==
    CASE v.type = "str" ->
            /\ \A i \in 1..Len(v.val) : v.val[i] # "\r"
            /\ v.val # <<>> => (~IsSpace(v.val[1]) /\ ~IsSpace(v.val[Len(v.val)]))
      [] v.type = "float" -> v.val.kind # "nan"
      [] OTHER -> TRUE

\* C4 amended: the round trip holds for every bool (with and without as_int),
\* int, float other than NaN, and string (the empty one included) that has no
\* leading or trailing whitespace and no carriage return.
C4_RoundTrip == (rt_pc = "done" /\ rt_saved /\ Survives(rt_value)) => RoundTripHolds

\* True saved as text ("True") and loaded inverted came back False
C4_Witness_BoolInverted ==
    /\ rt_pc = "done" /\ rt_saved
    /\ rt_value = VBool(TRUE) /\ ~rt_as_int /\ rt_inv
    /\ rt_file = File(<<"T", "r", "u", "e">>)
    /\ rt_result = VBool(FALSE)

StrictlyInside(path, dir) == IsPrefix(dir, path) /\ path # dir

\* C2: a path _validate_key_path accepts is strictly inside the settings
\* directory, and every file save_setting or load_setting creates, replaces,
\* removes or reads, the temporary file included, is inside it.
C2_NeverEscapes ==
    ks_pc = "done" =>
        /\ ks_valid => StrictlyInside(ks_keypath, SETTINGS_DIR)
        /\ \A f \in ks_fileOps : StrictlyInside(f, SETTINGS_DIR)

HasDotDot(key) == \E i \in 1..(Len(key) - 1) : key[i] = "." /\ key[i + 1] = "."

\* C3: a key containing "..", an absolute path or a null byte is rejected
\* and the call creates, writes and removes nothing, whatever the cache holds.
C3_RejectedUntouched ==
    (ks_pc = "done" /\ (HasDotDot(ks_key) \/ IsAbsolute(ks_key) \/ HasNul(ks_key))) =>
        /\ ~ks_valid
        /\ ks_fileOps = {}
        /\ ks_dirOps = {}

Complete(content) == Len(content) = 2 /\ content[1] = content[2]

\* C1: whatever the interleaving of save_setting and load_setting calls on a
\* key, the key's file always holds a complete value (the prior one or that
\* of one save_setting call), and so does whatever a reader reads: never an
\* empty or partly written text.
C1_ReadersSeeCompleteValues ==
    /\ Complete(ss_content[ss_target])
    /\ \A t \in SaveThreads :
          ss_observed[t] \in {NotRead, Default} \/ Complete(ss_observed[t])

\* C8: a save_setting call in which a step failed has not raised to its
\* caller and has not replaced the key's file.
C8_FailureIsSilent ==
    \A t \in SaveThreads :
        (ss_pc[t] = "done" /\ ss_failed[t]) => (~ss_raised[t] /\ ~ss_renamed[t])

\* C9 as stated: when a save_setting call that created a temporary file has
\* returned, that file has no name left in the directory.
C9_NoTempRemains_Original ==
    \A t \in SaveThreads :
        (ss_pc[t] = "done" /\ ss_call[t] # NoInode) => ss_call[t] \notin ss_tmpNames

\* C9 amended: when a save_setting call that created a temporary file has
\* returned, that file was renamed onto the target or removed, unless the
\* unlink of the clean-up itself failed.
C9_NoTempRemains ==
    \A t \in SaveThreads :
        (ss_pc[t] = "done" /\ ss_call[t] # NoInode /\ ~ss_unlinkErr[t]) =>
            ss_call[t] \notin ss_tmpNames

\* a call whose rename failed has returned and its temporary file is gone
C9_Witness_FailedRenameCleaned ==
    \E t \in SaveThreads :
        /\ ss_pc[t] = "done" /\ ss_call[t] # NoInode
        /\ ss_failed[t] /\ ~ss_renamed[t] /\ ss_closes[t] = 1
        /\ Complete(ss_content[ss_call[t]])
        /\ ss_call[t] \notin ss_tmpNames

\* C10: a call closes the descriptor mkstemp gave it exactly once, never a
\* second time, and no thread closes a descriptor another thread opened.
C10_ClosedExactlyOnce ==
    /\ \A t \in SaveThreads : ss_closes[t] <= 1
    /\ \A t \in SaveThreads : (ss_pc[t] = "done" /\ ss_call[t] # NoInode) => ss_closes[t] = 1
    /\ ~ss_foreign
====
